---- MODULE Spec2Model ----
(***************************************************************************)
(* Knowledge-base reconciliation: KnowledgeBaseManager (kb_manager.py)     *)
(* driving a MongoSink (mongo_sink.py) that stores Chunk documents         *)
(* (models.py).  Every backend call of a handler is one atomic step (the   *)
(* handlers suspend only at their awaits), so a call can fail between two  *)
(* steps and leave what the earlier steps committed.                       *)
(***************************************************************************)
EXTENDS Integers, Sequences, FiniteSets, TLC

VARIABLES
    db,          \* MongoSink.db: None until connect() assigns it
    ping,        \* how the ping of the last connect() ended: None before any connect
    store,       \* the collection: a set of documents [id, text, embedding, metadata]
    pc,          \* per task: the backend call it is suspended before, or idle/done/failed
    op,          \* per task: the entry point it runs ("process_file", "delete_file")
    args,        \* per task: the arguments of the running call
    loc,         \* per task: the locals of process_file / ingest_chunks
    calls,       \* per task: the sink methods the running call has invoked, in order
    pre,         \* per task: the collection as it was when the call started
    follows,     \* per task: how the call relates to the caller's previous one
    origin,      \* per task, for a retry: the collection when the failed call started
    overlap,     \* per task: whether its process_file ran while another caller's
                 \* process_file for the same filename was running
    failures     \* the backend errors met so far

vars == <<db, ping, store, pc, op, args, loc, calls, pre, follows, origin, overlap, failures>>

----------------------------------------------------------------------------
(* Values *)

None == "<None>"

Tasks == {"t1", "t2"}
SerialTasks == {"t1"}

\* the backend errors (PyMongoError) one behaviour meets
MaxFailures == 1

Filenames == {"a.pdf", "b.pdf"}
FilePaths == {<<"path", "to", "a.pdf">>, <<"path", "to", "b.pdf">>}
\* the file at file_path when a call reads it: its path and its bytes, None
\* when no file exists at that path
Files ==
    {[file_path |-> p, content |-> None] : p \in FilePaths}
        \cup {[file_path |-> <<"path", "to", "a.pdf">>, content |-> "v1"]}

EmptyDict == [k \in {} |-> None]

\* dict.get(k): None when the key is missing
Get(d, k) == IF k \in DOMAIN d THEN d[k] ELSE None

\* a test for None in the place of the truthiness test
Falsy_OnlyNone(v) == v = None

\* Python truthiness of the values used here: None, "" and {} are falsy
Falsy(v) == v = None \/ v = ""

\* the metadata dicts callers pass: filename (possibly missing or empty), an
\* optional label, an optional caller-supplied file_hash
MetaDict(fn, label, fh) ==
    [k \in (IF fn = None THEN {} ELSE {"filename"})
           \cup (IF label = None THEN {} ELSE {"label"})
           \cup (IF fh = None THEN {} ELSE {"file_hash"})
       |-> CASE k = "filename" -> fn
             [] k = "label" -> label
             [] OTHER -> fh]

Metadatas ==
    {MetaDict("a.pdf", l, None) : l \in {"draft", "final"}}
        \cup {MetaDict("b.pdf", "draft", None)}
        \cup {MetaDict(fn, "draft", None) : fn \in {None, ""}}
        \cup {MetaDict("a.pdf", "draft", "stale")}

----------------------------------------------------------------------------
(* Pure functions *)

\* os.path.basename
basename(file_path) == file_path[Len(file_path)]

RECURSIVE PathString(_)
PathString(file_path) ==
    IF Len(file_path) = 1 THEN file_path[1]
    ELSE PathString(SubSeq(file_path, 1, Len(file_path) - 1)) \o "/" \o file_path[Len(file_path)]

\* hashlib.md5(...).hexdigest(): a digest of its input, collisions left out
md5(s) == "md5(" \o s \o ")"

\* json.dumps(metadata, sort_keys=True) over the keys used here
json_dumps(metadata) ==
    LET item(k) == IF k \in DOMAIN metadata THEN k \o ":" \o metadata[k] \o "," ELSE ""
    IN "{" \o item("file_hash") \o item("filename") \o item("label") \o "}"

\* generate_id with the salt left out of the hashed string
generate_id_NoSalt(text, metadata, include_metadata, salt) == md5(text)

\* generate_id with the metadata hashed whatever include_metadata says
generate_id_WithMetadata(text, metadata, include_metadata, salt) ==
    LET salted == IF salt # "" THEN text \o "|" \o salt ELSE text
    IN md5(IF metadata # EmptyDict THEN salted \o "|" \o json_dumps(metadata) ELSE salted)

generate_id(text, metadata, include_metadata, salt) ==
    LET salted == IF salt # "" THEN text \o "|" \o salt ELSE text
        content_to_hash ==
            IF include_metadata /\ metadata # EmptyDict
            THEN salted \o "|" \o json_dumps(metadata)
            ELSE salted
    IN md5(content_to_hash)

\* _calculate_file_hash without the fallback: no fingerprint for a missing file
_calculate_file_hash_NoFallback(file_path, content) ==
    IF content = None THEN None ELSE md5(content)

\* lines 163-175; content is None when no file exists at file_path
_calculate_file_hash(file_path, content) ==
    IF content = None THEN md5(PathString(file_path)) ELSE md5(content)

\* _metadata_changed without the skip of file_hash
_metadata_changed_WithHash(old_meta, new_meta) ==
    \E k \in DOMAIN new_meta : Get(old_meta, k) # new_meta[k]

_metadata_changed(old_meta, new_meta) ==
    \E k \in DOMAIN new_meta : k # "file_hash" /\ Get(old_meta, k) # new_meta[k]

_mock_extract_and_chunk(file_path) ==
    << "Content of " \o basename(file_path) \o " chunk 1",
       "Content of " \o basename(file_path) \o " chunk 2" >>

mock_embedding == <<"0.1", "0.1", "0.1">>

\* metadata.copy() with file_hash set
updated_metadata(metadata, file_hash) ==
    [k \in DOMAIN metadata \cup {"file_hash"} |->
        IF k = "file_hash" THEN file_hash ELSE metadata[k]]

\* the final_chunks list _handle_new_file hands to ingest_chunks
final_chunks(file_path, metadata, file_hash) ==
    LET chunks == _mock_extract_and_chunk(file_path)
    IN [i \in 1..Len(chunks) |->
           [id |-> generate_id(chunks[i], EmptyDict, FALSE, metadata["filename"]),
            text |-> chunks[i],
            embedding |-> mock_embedding,
            metadata |-> updated_metadata(metadata, file_hash)]]

\* the path _handle_metadata_update extracts from
mock_path(filename) == <<"mock_path", filename>>

----------------------------------------------------------------------------
(* The collection *)

\* an insert_one in the place of the upsert
UpdateOneUpsert_Insert(s, doc) == s \cup {doc}

\* UpdateOne({"id": id}, {"$set": doc}, upsert=True)
UpdateOneUpsert(s, doc) ==
    IF \E d \in s : d.id = doc.id
    THEN (s \ {CHOOSE d \in s : d.id = doc.id}) \cup {doc}
    ELSE s \cup {doc}

\* collection.bulk_write(operations): ordered, one operation after another
RECURSIVE bulk_write(_, _)
bulk_write(s, operations) ==
    IF operations = <<>> THEN s
    ELSE bulk_write(UpdateOneUpsert(s, Head(operations)), Tail(operations))

\* delete_many with an empty filter
delete_many_NoFilter(s, filename) == {}

\* delete_many with the filter on a top-level "filename" field
delete_many_TopLevelField(s, filename) == {d \in s : Get(d, "filename") # filename}

\* delete_many with a filter that also asks for a file_hash
delete_many_OnlyHashed(s, filename) ==
    {d \in s : ~(Get(d.metadata, "filename") = filename /\ "file_hash" \in DOMAIN d.metadata)}

\* collection.delete_many({"metadata.filename": filename})
delete_many(s, filename) == {d \in s : Get(d.metadata, "filename") # filename}

\* the documents find_one({"metadata.filename": filename}) can return
Matching(s, filename) == {d \in s : Get(d.metadata, "filename") = filename}

\* the default of the batch_size parameter of ingest_chunks
batch_size == 100

Min(a, b) == IF a < b THEN a ELSE b

\* a slice with no upper end: chunks[i:]
Batch_NoEnd(chunks, i, size) == SubSeq(chunks, i + 1, Len(chunks))

\* chunks[i : i + batch_size] for the 0-based offset i
Batch(chunks, i, size) == SubSeq(chunks, i + 1, Min(i + size, Len(chunks)))

----------------------------------------------------------------------------
(* Task state *)

IdleLoc ==
    [filename |-> None, current_hash |-> None, existing_info |-> EmptyDict,
     scenario |-> None, chunks |-> <<>>, batch_size |-> batch_size, i |-> 0,
     result |-> EmptyDict, error |-> None, log |-> <<>>]

Finished == {"idle", "done", "failed"}

\* task t runs no call
Idle(t) == pc[t] \in Finished

\* the caller serializes: a call starts only when no other call is running
Quiescent == \A t \in Tasks : pc[t] \in Finished

\* the end of a call whose except clause logs the error and does not raise
Return_Swallowed(t, outcome, error) ==
    /\ pc' = [pc EXCEPT ![t] = "done"]
    /\ loc' = [loc EXCEPT ![t].error = None]
    /\ failures' = IF error = "PyMongoError" THEN failures + 1 ELSE failures

\* the call of task t ends: "done", or "failed" with the exception raised
Return(t, outcome, error) ==
    /\ pc' = [pc EXCEPT ![t] = outcome]
    /\ loc' = [loc EXCEPT ![t].error = error]
    /\ failures' = IF error = "PyMongoError" THEN failures + 1 ELSE failures

\* the errors the backend can raise now
BackendErrors == IF failures < MaxFailures THEN {"PyMongoError"} ELSE {}

\* how a call of task t relates to the caller's previous call, which the task
\* still records: the same call again after it returned ("repeat") or after it
\* failed ("retry"), another process_file for the filename of one that failed
\* in its ingest, none of its chunks stored, after its delete
\* ("after_failed_reingest"), or a call for the filename just deleted
\* ("after_delete")
Follows(t, new_op, new_args) ==
    IF op[t] = new_op /\ args[t] = new_args /\ pc[t] = "done" THEN "repeat"
    ELSE IF op[t] = new_op /\ args[t] = new_args /\ pc[t] = "failed" THEN "retry"
    ELSE IF /\ op[t] = "process_file" /\ pc[t] = "failed" /\ new_op = "process_file"
            /\ Get(args[t].metadata, "filename") = Get(new_args.metadata, "filename")
            /\ calls[t] = <<"get_file_info", "delete_chunks", "ingest_chunks">>
            /\ \A i \in DOMAIN loc[t].chunks : loc[t].chunks[i] \notin store
    THEN "after_failed_reingest"
    ELSE IF /\ op[t] = "delete_file" /\ pc[t] = "done" /\ new_op = "process_file"
            /\ args[t].filename = Get(new_args.metadata, "filename")
    THEN "after_delete"
    ELSE None

Init ==
    /\ db = None
    /\ ping = None
    /\ store = {}
    /\ pc = [t \in Tasks |-> "idle"]
    /\ op = [t \in Tasks |-> None]
    /\ args = [t \in Tasks |-> EmptyDict]
    /\ loc = [t \in Tasks |-> IdleLoc]
    /\ calls = [t \in Tasks |-> <<>>]
    /\ pre = [t \in Tasks |-> {}]
    /\ follows = [t \in Tasks |-> None]
    /\ origin = [t \in Tasks |-> {}]
    /\ overlap = [t \in Tasks |-> FALSE]
    /\ failures = 0

----------------------------------------------------------------------------
(* MongoSink.connect *)

\* self.db is assigned before the ping, so it is assigned whether the ping
\* returns (ok) or raises; the caller connects until a connect() has returned
connect(ok) ==
    /\ Quiescent
    /\ ping # "ok"
    /\ ok \/ BackendErrors # {}
    /\ db' = "db"
    /\ ping' = IF ok THEN "ok" ELSE "failed"
    /\ failures' = IF ok THEN failures ELSE failures + 1
    /\ UNCHANGED <<store, pc, op, args, loc, calls, pre, follows, origin, overlap>>

----------------------------------------------------------------------------
(* KnowledgeBaseManager.process_file *)

\* Scenario with the metadata comparison made before the hash comparison
Scenario_MetadataFirst(existing_info, current_hash, metadata) ==
    IF existing_info = EmptyDict THEN "NEW"
    ELSE IF Falsy(Get(existing_info, "file_hash")) THEN "LEGACY"
    ELSE IF _metadata_changed(existing_info, metadata) THEN "METADATA_CHANGED"
    ELSE IF Get(existing_info, "file_hash") # current_hash THEN "CONTENT_CHANGED"
    ELSE "UNCHANGED"

\* Scenario without the legacy branch, a missing file_hash read as the current one
Scenario_NoLegacy(existing_info, current_hash, metadata) ==
    IF existing_info = EmptyDict THEN "NEW"
    ELSE IF "file_hash" \in DOMAIN existing_info /\ existing_info["file_hash"] # current_hash
    THEN "CONTENT_CHANGED"
    ELSE IF _metadata_changed(existing_info, metadata) THEN "METADATA_CHANGED"
    ELSE "UNCHANGED"

\* Scenario without the NEW branch: nothing stored is read as no file_hash stored
Scenario_NoNew(existing_info, current_hash, metadata) ==
    IF Falsy(Get(existing_info, "file_hash")) THEN "LEGACY"
    ELSE IF Get(existing_info, "file_hash") # current_hash THEN "CONTENT_CHANGED"
    ELSE IF _metadata_changed(existing_info, metadata) THEN "METADATA_CHANGED"
    ELSE "UNCHANGED"

\* Scenario with a metadata change handled as a content change
Scenario_MetadataAsContent(existing_info, current_hash, metadata) ==
    IF existing_info = EmptyDict THEN "NEW"
    ELSE IF Falsy(Get(existing_info, "file_hash")) THEN "LEGACY"
    ELSE IF Get(existing_info, "file_hash") # current_hash THEN "CONTENT_CHANGED"
    ELSE IF _metadata_changed(existing_info, metadata) THEN "CONTENT_CHANGED"
    ELSE "UNCHANGED"

\* the branch process_file takes, lines 45-71
Scenario(existing_info, current_hash, metadata) ==
    IF existing_info = EmptyDict THEN "NEW"
    ELSE IF Falsy(Get(existing_info, "file_hash")) THEN "LEGACY"
    ELSE IF Get(existing_info, "file_hash") # current_hash THEN "CONTENT_CHANGED"
    ELSE IF _metadata_changed(existing_info, metadata) THEN "METADATA_CHANGED"
    ELSE "UNCHANGED"

\* the path whose extraction the scenario ingests
IngestPath(scenario, file_path, filename) ==
    IF scenario = "METADATA_CHANGED" THEN mock_path(filename) ELSE file_path

\* caller u is inside a process_file for the filename the new call is for
Overlaps(u, new_op, new_args) ==
    /\ ~Idle(u)
    /\ op[u] = "process_file" /\ new_op = "process_file"
    /\ Get(args[u].metadata, "filename") = Get(new_args.metadata, "filename")

\* what a call records when it starts
Enter(t, new_op, new_args) ==
    /\ op' = [op EXCEPT ![t] = new_op]
    /\ args' = [args EXCEPT ![t] = new_args]
    /\ calls' = [calls EXCEPT ![t] = <<>>]
    /\ pre' = [pre EXCEPT ![t] = store]
    /\ follows' = [follows EXCEPT ![t] = Follows(t, new_op, new_args)]
    /\ origin' = [origin EXCEPT ![t] =
                     IF Follows(t, new_op, new_args) = "retry" THEN pre[t] ELSE {}]
    /\ overlap' = [u \in Tasks |->
                      IF u = t THEN \E v \in Tasks \ {t} : Overlaps(v, new_op, new_args)
                      ELSE overlap[u] \/ Overlaps(u, new_op, new_args)]

\* the records _calculate_file_hash hands to the logger: it has no logger
\* call, on the path that reads the file or on the one that hashes the path
HashLog(file_path, content) == <<>>

\* the records the manager's logger gets from the dispatch on, lines 47-77
\* and 159, before the next await
ScenarioLog(scenario, filename) ==
    CASE scenario = "NEW" ->
           <<[level |-> "info", event |-> "is new", filename |-> filename]>>
      [] scenario = "LEGACY" ->
           <<[level |-> "warning", event |-> "has NO hash (Legacy)", filename |-> filename],
             [level |-> "info", event |-> "Deleting file", filename |-> filename]>>
      [] scenario = "CONTENT_CHANGED" ->
           <<[level |-> "info", event |-> "content has changed", filename |-> filename],
             [level |-> "info", event |-> "Deleting file", filename |-> filename]>>
      [] scenario = "METADATA_CHANGED" ->
           <<[level |-> "info", event |-> "metadata changed", filename |-> filename],
             [level |-> "info", event |-> "Stable IDs enabled", filename |-> None]>>
      [] OTHER ->
           <<[level |-> "info", event |-> "is up to date", filename |-> filename]>>

\* entry: the filename check and the fingerprint, up to the first await
process_file(t, file_path, content, metadata) ==
    /\ Idle(t)
    /\ Enter(t, "process_file",
             [file_path |-> file_path, content |-> content, metadata |-> metadata])
    /\ IF Falsy(Get(metadata, "filename"))
       THEN /\ pc' = [pc EXCEPT ![t] = "failed"]
            /\ loc' = [loc EXCEPT ![t] = [IdleLoc EXCEPT !.error = "ValueError"]]
       ELSE /\ pc' = [pc EXCEPT ![t] = "get_file_info"]
            /\ loc' = [loc EXCEPT ![t] =
                          [IdleLoc EXCEPT !.filename = metadata["filename"],
                                          !.current_hash = _calculate_file_hash(file_path, content),
                                          !.log = HashLog(file_path, content)]]
    /\ UNCHANGED <<db, ping, store, failures>>

\* what MongoSink.get_file_info can return: the metadata of any one matching
\* document, None (here the empty dict, equally falsy) when there is none
FileInfos(s, filename) ==
    IF Matching(s, filename) = {} THEN {EmptyDict}
    ELSE {d.metadata : d \in Matching(s, filename)}

\* how the find_one of get_file_info can end: an error, or one of FileInfos
GetFileInfoResults(s, filename) ==
    IF db = None THEN {[error |-> "ConnectionError", info |-> EmptyDict]}
    ELSE {[error |-> e, info |-> EmptyDict] : e \in BackendErrors}
         \cup {[error |-> None, info |-> m] : m \in FileInfos(s, filename)}

\* await self.sink.get_file_info(...), then the dispatch on what it returned
get_file_info(t) ==
    /\ pc[t] = "get_file_info"
    /\ calls' = [calls EXCEPT ![t] = Append(@, "get_file_info")]
    /\ \E result \in GetFileInfoResults(store, loc[t].filename) :
          IF result.error # None
          THEN Return(t, "failed", result.error)
          ELSE LET scenario == Scenario(result.info, loc[t].current_hash, args[t].metadata)
                   next == [loc[t] EXCEPT !.existing_info = result.info, !.scenario = scenario,
                                          !.log = @ \o ScenarioLog(scenario, loc[t].filename)]
               IN CASE scenario = "UNCHANGED" ->
                         /\ pc' = [pc EXCEPT ![t] = "done"]
                         /\ loc' = [loc EXCEPT ![t] = next]
                         /\ failures' = failures
                    [] scenario \in {"LEGACY", "CONTENT_CHANGED"} ->
                         /\ pc' = [pc EXCEPT ![t] = "delete_chunks"]
                         /\ loc' = [loc EXCEPT ![t] = next]
                         /\ failures' = failures
                    [] OTHER ->
                         /\ pc' = [pc EXCEPT ![t] = "ingest_chunks"]
                         /\ loc' = [loc EXCEPT ![t] =
                                [next EXCEPT !.chunks =
                                    final_chunks(IngestPath(scenario, args[t].file_path, next.filename),
                                                 args[t].metadata, next.current_hash)]]
                         /\ failures' = failures
    /\ UNCHANGED <<db, ping, store, op, args, pre, follows, origin, overlap>>

----------------------------------------------------------------------------
(* KnowledgeBaseManager.delete_file and MongoSink.delete_chunks *)

\* entry of a caller's delete_file(filename): nothing but the delete_chunks call
delete_file(t, filename) ==
    /\ Idle(t)
    /\ Enter(t, "delete_file", [filename |-> filename])
    /\ pc' = [pc EXCEPT ![t] = "delete_chunks"]
    /\ loc' = [loc EXCEPT ![t] =
                  [IdleLoc EXCEPT !.filename = filename,
                                  !.log = <<[level |-> "info", event |-> "Deleting file",
                                             filename |-> filename]>>]]
    /\ UNCHANGED <<db, ping, store, failures>>

\* how delete_many can end; a failed delete_many is taken to delete nothing
DeleteResults == IF db = None THEN {"ConnectionError"} ELSE BackendErrors \cup {"ok"}

\* await self.sink.delete_chunks(collection, {"metadata.filename": filename}),
\* issued by delete_file, which _handle_content_update calls before it ingests
delete_chunks(t) ==
    /\ pc[t] = "delete_chunks"
    /\ calls' = [calls EXCEPT ![t] = Append(@, "delete_chunks")]
    /\ \E result \in DeleteResults :
          IF result # "ok"
          THEN /\ Return(t, "failed", result)
               /\ store' = store
          ELSE /\ store' = delete_many(store, loc[t].filename)
               /\ IF op[t] = "delete_file"
                  THEN Return(t, "done", None)
                  ELSE /\ pc' = [pc EXCEPT ![t] = "ingest_chunks"]
                       /\ loc' = [loc EXCEPT ![t].chunks =
                                     final_chunks(args[t].file_path, args[t].metadata,
                                                  loc[t].current_hash)]
                       /\ failures' = failures
    /\ UNCHANGED <<db, ping, op, args, pre, follows, origin, overlap>>

----------------------------------------------------------------------------
(* MongoSink.ingest_chunks *)

\* how the bulk_write of one batch can end: every operation applied, or an
\* error after the first k operations of the ordered batch were applied
BulkWriteResults(batch) ==
    IF db = None THEN {[error |-> "ConnectionError", applied |-> 0]}
    ELSE {[error |-> None, applied |-> Len(batch)]}
         \cup {[error |-> e, applied |-> k] : e \in BackendErrors, k \in 0..(Len(batch) - 1)}

\* the offsets of range(0, total_chunks, batch_size) for a step other than
\* zero: none when the step is negative
RangeOffsets(total_chunks, step) ==
    IF step > 0 THEN {i \in 0..(total_chunks - 1) : i % step = 0} ELSE {}

\* one turn of the loop over range(0, total_chunks, batch_size): the batch at
\* offset loc.i is written, and the loop ends when no offset is left; a step
\* of zero makes range() raise ValueError, and with no offset at all the call
\* returns without a write
ingest_chunks(t) ==
    /\ pc[t] = "ingest_chunks"
    /\ calls' = [calls EXCEPT ![t] = IF loc[t].i = 0 THEN Append(@, "ingest_chunks") ELSE @]
    /\ IF db # None /\ loc[t].batch_size = 0
       THEN store' = store /\ Return(t, "failed", "ValueError")
       ELSE IF db # None /\ loc[t].i \notin RangeOffsets(Len(loc[t].chunks), loc[t].batch_size)
       THEN store' = store /\ Return(t, "done", None)
       ELSE LET batch == Batch(loc[t].chunks, loc[t].i, loc[t].batch_size)
            IN \E result \in BulkWriteResults(batch) :
                  /\ store' = bulk_write(store, SubSeq(batch, 1, result.applied))
                  /\ IF result.error # None
                     THEN Return(t, "failed", result.error)
                     ELSE IF loc[t].i + loc[t].batch_size < Len(loc[t].chunks)
                     THEN /\ loc' = [loc EXCEPT ![t].i = @ + loc[t].batch_size]
                          /\ UNCHANGED <<pc, failures>>
                     ELSE Return(t, "done", None)
    /\ UNCHANGED <<db, ping, op, args, pre, follows, origin, overlap>>

----------------------------------------------------------------------------
(* Legacy documents *)

\* update_many({"metadata.filename": filename}, {"$unset": {"metadata.file_hash": ""}}):
\* the documents of a file as they were stored before hashing was introduced.
\* The caller's record of its previous call is dropped: the next call follows
\* this change, not that call
unset_file_hash(filename) ==
    /\ Quiescent
    /\ \E d \in Matching(store, filename) : "file_hash" \in DOMAIN d.metadata
    /\ store' = {IF Get(d.metadata, "filename") = filename
                 THEN [d EXCEPT !.metadata = [k \in DOMAIN d.metadata \ {"file_hash"} |-> d.metadata[k]]]
                 ELSE d : d \in store}
    /\ pc' = [t \in Tasks |-> "idle"]
    /\ op' = [t \in Tasks |-> None]
    /\ args' = [t \in Tasks |-> EmptyDict]
    /\ loc' = [t \in Tasks |-> IdleLoc]
    /\ calls' = [t \in Tasks |-> <<>>]
    /\ pre' = [t \in Tasks |-> {}]
    /\ follows' = [t \in Tasks |-> None]
    /\ origin' = [t \in Tasks |-> {}]
    /\ overlap' = [t \in Tasks |-> FALSE]
    /\ UNCHANGED <<db, ping, failures>>

----------------------------------------------------------------------------
(* The serialized system: one caller, one call at a time *)

Next ==
    \/ \E ok \in BOOLEAN : connect(ok)
    \/ \E t \in SerialTasks, f \in Files, metadata \in Metadatas :
          process_file(t, f.file_path, f.content, metadata)
    \/ \E t \in SerialTasks : get_file_info(t)
    \/ \E t \in SerialTasks, filename \in Filenames : delete_file(t, filename)
    \/ \E t \in SerialTasks : delete_chunks(t)
    \/ \E t \in SerialTasks : ingest_chunks(t)
    \/ \E filename \in Filenames : unset_file_hash(filename)

Spec == Init /\ [][Next]_vars

----------------------------------------------------------------------------
(* Concurrent callers: one per filename, each awaiting its own calls in turn *)

\* the filename whose calls task t makes
Owner == [t \in Tasks |-> IF t = "t1" THEN "a.pdf" ELSE "b.pdf"]

\* the files the callers read: both read the same path, so that the two
\* filenames hold chunks with the same text; the first caller finds the file
\* with or without content
ConcFiles(t) ==
    {f \in Files : /\ f.file_path = <<"path", "to", "a.pdf">>
                   /\ (t = "t1" \/ f.content = None)}

\* the metadata task t passes: its own filename, any label, no file_hash
ConcMetadatas(t) ==
    {m \in Metadatas : Get(m, "filename") = Owner[t] /\ "file_hash" \notin DOMAIN m}

\* the coroutines of the two callers interleave at their awaits
ConcNext ==
    \/ \E ok \in BOOLEAN : connect(ok)
    \/ \E t \in Tasks : \E f \in ConcFiles(t), metadata \in ConcMetadatas(t) :
          process_file(t, f.file_path, f.content, metadata)
    \/ \E t \in Tasks : get_file_info(t)
    \/ \E t \in Tasks : delete_file(t, Owner[t])
    \/ \E t \in Tasks : delete_chunks(t)
    \/ \E t \in Tasks : ingest_chunks(t)

ConcSpec == Init /\ [][ConcNext]_vars

----------------------------------------------------------------------------
(* Two callers of one filename, with nothing that serializes them *)

SameFilename == "a.pdf"

\* the file each caller finds when it reads it: the first the path with no
\* file behind it, the second that path with content, or another path
SameFiles(t) ==
    IF t = "t1"
    THEN {f \in Files : f.file_path = <<"path", "to", "a.pdf">> /\ f.content = None}
    ELSE {f \in Files : f.file_path # <<"path", "to", "a.pdf">> \/ f.content # None}

SameNext ==
    \/ \E ok \in BOOLEAN : connect(ok)
    \/ \E t \in Tasks : \E f \in SameFiles(t) :
          process_file(t, f.file_path, f.content, MetaDict(SameFilename, "draft", None))
    \/ \E t \in Tasks : get_file_info(t)
    \/ \E t \in Tasks : delete_chunks(t)
    \/ \E t \in Tasks : ingest_chunks(t)

SameSpec == Init /\ [][SameNext]_vars

----------------------------------------------------------------------------
(* Direct use of the sink, as test_pipeline.py makes it *)

Texts == {"Stable Content", "Second Content", "Third Content"}

\* Chunk(id=Chunk.generate_id(text, include_metadata=False), text=text,
\*       embedding=[0.1, 0.2, 0.3], metadata={... "status": status})
StableChunk(text, status) ==
    [id |-> generate_id(text, EmptyDict, FALSE, ""),
     text |-> text,
     embedding |-> <<"0.1", "0.2", "0.3">>,
     metadata |-> MetaDict(None, status, None)]

Statuses == {"draft", "published"}

\* the chunk lists handed to ingest_chunks: none, one, three chunks
ChunkLists ==
    {<<>>}
        \cup {<<StableChunk("Stable Content", s)>> : s \in Statuses}
        \cup {<<StableChunk("Stable Content", s), StableChunk("Second Content", s),
                StableChunk("Third Content", s)>> : s \in Statuses}

\* the batch_size arguments: smaller than the list, and the default
BatchSizes == {1, 2, batch_size}

ChunkIds == {generate_id(text, EmptyDict, FALSE, "") : text \in Texts}

\* entry of a caller's ingest_chunks(collection, chunks, batch_size)
call_ingest_chunks(t, chunks, size) ==
    /\ Idle(t)
    /\ Enter(t, "ingest_chunks", [chunks |-> chunks, batch_size |-> size])
    /\ pc' = [pc EXCEPT ![t] = "ingest_chunks"]
    /\ loc' = [loc EXCEPT ![t] = [IdleLoc EXCEPT !.chunks = chunks, !.batch_size = size]]
    /\ UNCHANGED <<db, ping, store, failures>>

\* update_one with upsert=True
update_one_Upsert(s, chunk_id, metadata) ==
    IF \E d \in s : d.id = chunk_id
    THEN {IF d.id = chunk_id THEN [d EXCEPT !.metadata = metadata] ELSE d : d \in s}
    ELSE s \cup {[id |-> chunk_id, text |-> None, embedding |-> <<>>, metadata |-> metadata]}

\* collection.update_one({"id": chunk_id}, {"$set": {"metadata": metadata}})
update_one(s, chunk_id, metadata) ==
    IF \E d \in s : d.id = chunk_id
    THEN LET d == CHOOSE d \in s : d.id = chunk_id
         IN (s \ {d}) \cup {[d EXCEPT !.metadata = metadata]}
    ELSE s

\* how update_one can end; a failed update_one is taken to update nothing
UpdateOneResults == IF db = None THEN {"ConnectionError"} ELSE BackendErrors \cup {"ok"}

\* MongoSink.update_chunk_metadata: one await; no match is a warning only
update_chunk_metadata(t, chunk_id, metadata) ==
    /\ Idle(t)
    /\ Enter(t, "update_chunk_metadata", [chunk_id |-> chunk_id, metadata |-> metadata])
    /\ \E result \in UpdateOneResults :
          /\ store' = IF result = "ok" THEN update_one(store, chunk_id, metadata) ELSE store
          /\ pc' = [pc EXCEPT ![t] = IF result = "ok" THEN "done" ELSE "failed"]
          /\ loc' = [loc EXCEPT ![t] =
                        [IdleLoc EXCEPT !.error = IF result = "ok" THEN None ELSE result]]
          /\ failures' = IF result = "PyMongoError" THEN failures + 1 ELSE failures
    /\ UNCHANGED <<db, ping>>

\* how the find_one of get_chunk can end: an error, any document with the id,
\* or None (here the empty dict) when no document has it
GetChunkResults(s, chunk_id) ==
    IF db = None THEN {[error |-> "ConnectionError", chunk |-> EmptyDict]}
    ELSE {[error |-> e, chunk |-> EmptyDict] : e \in BackendErrors}
         \cup {[error |-> None, chunk |-> d] :
                 d \in IF \E x \in s : x.id = chunk_id
                       THEN {x \in s : x.id = chunk_id} ELSE {EmptyDict}}

\* MongoSink.get_chunk: one await; the Chunk made of the document found
get_chunk(t, chunk_id) ==
    /\ Idle(t)
    /\ Enter(t, "get_chunk", [chunk_id |-> chunk_id])
    /\ \E result \in GetChunkResults(store, chunk_id) :
          /\ pc' = [pc EXCEPT ![t] = IF result.error = None THEN "done" ELSE "failed"]
          /\ loc' = [loc EXCEPT ![t] =
                        [IdleLoc EXCEPT !.result = result.chunk, !.error = result.error]]
          /\ failures' = IF result.error = "PyMongoError" THEN failures + 1 ELSE failures
    /\ UNCHANGED <<db, ping, store>>

SinkNext ==
    \/ \E ok \in BOOLEAN : connect(ok)
    \/ \E t \in SerialTasks, chunks \in ChunkLists, size \in BatchSizes :
          call_ingest_chunks(t, chunks, size)
    \/ \E t \in SerialTasks : ingest_chunks(t)
    \/ \E t \in SerialTasks, chunk_id \in ChunkIds, status \in Statuses :
          update_chunk_metadata(t, chunk_id, MetaDict(None, status, None))
    \/ \E t \in SerialTasks, chunk_id \in ChunkIds : get_chunk(t, chunk_id)

SinkSpec == Init /\ [][SinkNext]_vars

----------------------------------------------------------------------------
(* Ids of extracted texts, the extractor replaced as test_collision.py does *)

\* the texts an extractor returns, one of them holding the separator
IdTexts == {"Common Text", "Common Text|file_a.pdf"}

\* the salts: none, two filenames, a filename holding the separator
IdSalts == {"", "file_a.pdf", "file_b.pdf", "file_a.pdf|file_b.pdf"}

\* the Chunk _handle_new_file builds for one text of the file named salt
SaltedChunk(text, salt) ==
    [id |-> generate_id(text, EmptyDict, FALSE, salt),
     text |-> text,
     embedding |-> mock_embedding,
     metadata |-> MetaDict(salt, "draft", None)]

IdNext ==
    \/ \E ok \in BOOLEAN : connect(ok)
    \/ \E t \in SerialTasks, text \in IdTexts, salt \in IdSalts :
          call_ingest_chunks(t, <<SaltedChunk(text, salt)>>, batch_size)
    \/ \E t \in SerialTasks : ingest_chunks(t)

IdSpec == Init /\ [][IdNext]_vars

----------------------------------------------------------------------------
(* One caller whose metadata gains and loses a key from call to call *)

\* the metadata of one file with its label, without it, and with a
\* file_hash of the caller's
KeyMetadatas ==
    {MetaDict("a.pdf", "draft", None), MetaDict("a.pdf", None, None),
     MetaDict("a.pdf", "draft", "stale")}

KeyFiles == {f \in Files : f.file_path = <<"path", "to", "a.pdf">>}

KeyNext ==
    \/ \E ok \in BOOLEAN : connect(ok)
    \/ \E t \in SerialTasks, f \in KeyFiles, metadata \in KeyMetadatas :
          process_file(t, f.file_path, f.content, metadata)
    \/ \E t \in SerialTasks : get_file_info(t)
    \/ \E t \in SerialTasks : delete_chunks(t)
    \/ \E t \in SerialTasks : ingest_chunks(t)

KeySpec == Init /\ [][KeyNext]_vars

----------------------------------------------------------------------------
(* ingest_chunks with any integer as batch_size *)

\* batch_size arguments: negative, zero, and smaller than the list
AnyBatchSizes == {-1, 0, 1, 2}

SizeNext ==
    \/ \E ok \in BOOLEAN : connect(ok)
    \/ \E t \in SerialTasks, chunks \in ChunkLists, size \in AnyBatchSizes :
          call_ingest_chunks(t, chunks, size)
    \/ \E t \in SerialTasks : ingest_chunks(t)

SizeSpec == Init /\ [][SizeNext]_vars

----------------------------------------------------------------------------
(* Vocabulary of the properties *)

Range(f) == {f[i] : i \in DOMAIN f}

Ids(docs) == {d.id : d \in docs}

\* task t ran process_file to its normal return
Completed(t) == op[t] = "process_file" /\ pc[t] = "done"

\* the documents a full ingest of the call's file_path writes
FullIngest(t) ==
    Range(final_chunks(args[t].file_path, args[t].metadata, loc[t].current_hash))

\* the collections process_file(file_path, metadata) can leave when it starts
\* from collection s and no backend call fails: one per document that
\* get_file_info can return
FailureFree(s, file_path, content, metadata) ==
    LET filename == metadata["filename"]
        current_hash == _calculate_file_hash(file_path, content)
        run(info) ==
            LET scenario == Scenario(info, current_hash, metadata)
                chunks == final_chunks(IngestPath(scenario, file_path, filename),
                                       metadata, current_hash)
            IN CASE scenario = "UNCHANGED" -> s
                 [] scenario \in {"LEGACY", "CONTENT_CHANGED"} ->
                       bulk_write(delete_many(s, filename), chunks)
                 [] OTHER -> bulk_write(s, chunks)
    IN {run(info) : info \in FileInfos(s, filename)}

----------------------------------------------------------------------------
(* C1 *)

\* C1: a process_file call that returns took exactly the branch the fixed
\* priority selects for what get_file_info returned: NEW (ingest, no delete)
\* when it returned nothing; else LEGACY (delete, then ingest) when the stored
\* metadata has no file_hash, whatever the content; else CONTENT_CHANGED
\* (delete, then ingest) when the stored file_hash differs from the current
\* fingerprint; else METADATA_CHANGED (ingest, no delete) when a key of the new
\* metadata other than file_hash differs from its stored value; else UNCHANGED
\* (no write).
C1_FixedPriority ==
    \A t \in Tasks : Completed(t) =>
        LET info == loc[t].existing_info
            m == args[t].metadata
            nothing == info = EmptyDict
            nohash == "file_hash" \notin DOMAIN info
            differs == info["file_hash"] # loc[t].current_hash
            edited == \E k \in DOMAIN m \ {"file_hash"} : Get(info, k) # m[k]
            GET == <<"get_file_info">>
            INGEST == <<"get_file_info", "ingest_chunks">>
            REINGEST == <<"get_file_info", "delete_chunks", "ingest_chunks">>
        IN /\ info \in FileInfos(pre[t], loc[t].filename)
           /\ IF nothing
              THEN loc[t].scenario = "NEW" /\ calls[t] = INGEST
              ELSE IF nohash
              THEN loc[t].scenario = "LEGACY" /\ calls[t] = REINGEST
              ELSE IF differs
              THEN loc[t].scenario = "CONTENT_CHANGED" /\ calls[t] = REINGEST
              ELSE IF edited
              THEN loc[t].scenario = "METADATA_CHANGED" /\ calls[t] = INGEST
              ELSE loc[t].scenario = "UNCHANGED" /\ calls[t] = GET /\ store = pre[t]

\* a stored file whose content and label both differ from the call's: the
\* hash comparison decides before the metadata comparison is made
C1_Witness ==
    \E t \in Tasks :
        /\ Completed(t)
        /\ loc[t].scenario = "CONTENT_CHANGED"
        /\ Get(loc[t].existing_info, "label") # Get(args[t].metadata, "label")

----------------------------------------------------------------------------
(* C2 *)

\* C2: between serialized calls, none of which met a backend error, all
\* documents with the same metadata.filename carry the same metadata: the same
\* file_hash and the same value of every file-level field.
C2_UniformFileMetadata ==
    (Quiescent /\ failures = 0) =>
        \A d1, d2 \in store :
            Get(d1.metadata, "filename") = Get(d2.metadata, "filename")
                => d1.metadata = d2.metadata

----------------------------------------------------------------------------
(* C3 *)

\* C3: when the file was last ingested from the call's own file_path and the
\* call takes the metadata-only path, the ids stored for the filename are
\* exactly the ids stored before, every document of the file reports the new
\* metadata values, and every document keeps the embedding it had.
C3_MetadataOnlyKeepsIds ==
    \A t \in Tasks :
        (/\ Completed(t)
         /\ loc[t].scenario = "METADATA_CHANGED"
         /\ Ids(Matching(pre[t], loc[t].filename)) = Ids(FullIngest(t)))
        => /\ Ids(Matching(store, loc[t].filename)) = Ids(Matching(pre[t], loc[t].filename))
           /\ \A info \in FileInfos(store, loc[t].filename) :
                 \A k \in DOMAIN args[t].metadata \ {"file_hash"} :
                    Get(info, k) = args[t].metadata[k]
           /\ \A d \in Matching(store, loc[t].filename) :
                 \E d0 \in pre[t] : d0.id = d.id /\ d0.embedding = d.embedding

----------------------------------------------------------------------------
(* C4 *)

\* C4: when a process_file call failed and the caller runs it again with the
\* same file_path and metadata, and the second run returns, the documents
\* stored for the filename are those a run without failure would have left
\* from the collection the failed call started from.
C4_RetrySelfHeals ==
    \A t \in Tasks :
        (Completed(t) /\ follows[t] = "retry")
        => Matching(store, loc[t].filename) \in
              {Matching(s, loc[t].filename) :
                  s \in FailureFree(origin[t], args[t].file_path, args[t].content,
                                    args[t].metadata)}

----------------------------------------------------------------------------
(* C5 *)

\* C5: when get_file_info returned a stored file_hash that differs from the
\* current fingerprint and the call returns, the documents stored for the
\* filename are exactly those of a full ingest of the new content, each with
\* file_hash equal to the current fingerprint, and none carries the old hash.
C5_ContentChangeReplaces ==
    \A t \in Tasks :
        (/\ Completed(t)
         /\ "file_hash" \in DOMAIN loc[t].existing_info
         /\ loc[t].existing_info["file_hash"] # loc[t].current_hash)
        => /\ Matching(store, loc[t].filename) = FullIngest(t)
           /\ \A d \in Matching(store, loc[t].filename) :
                 /\ d.metadata["file_hash"] = loc[t].current_hash
                 /\ d.metadata["file_hash"] # loc[t].existing_info["file_hash"]

\* a content change whose old documents have other ids than the new ones
C5_Witness ==
    \E t \in Tasks :
        /\ Completed(t)
        /\ loc[t].scenario = "CONTENT_CHANGED"
        /\ Ids(Matching(pre[t], loc[t].filename)) \cap Ids(FullIngest(t)) = {}
        /\ Matching(pre[t], loc[t].filename) # {}

----------------------------------------------------------------------------
(* C6 *)

\* C6: a process_file call that repeats the caller's previous call (same
\* file_path, same content, same metadata), both returning and no backend
\* call having failed so far, leaves the collection as the first call left
\* it: the same ids, and the same text, embedding and metadata under each.
C6_RepeatChangesNothing ==
    \A t \in Tasks :
        (Completed(t) /\ follows[t] = "repeat" /\ failures = 0) => store = pre[t]

----------------------------------------------------------------------------
(* C7 *)

\* C7: when the stored file_hash that get_file_info returned equals the
\* current fingerprint and every key of the supplied metadata other than
\* file_hash has its stored value, the call invokes get_file_info and nothing
\* else, and the collection is as it was when the call started.
C7_NoOpTouchesNothing ==
    \A t \in Tasks :
        (/\ Completed(t)
         /\ Get(loc[t].existing_info, "file_hash") = loc[t].current_hash
         /\ \A k \in DOMAIN args[t].metadata \ {"file_hash"} :
               Get(loc[t].existing_info, k) = args[t].metadata[k])
        => /\ calls[t] = <<"get_file_info">>
           /\ store = pre[t]

\* a no-op on a stored file, by a call that supplies a file_hash of its own
C7_Witness ==
    \E t \in Tasks :
        /\ Completed(t)
        /\ loc[t].scenario = "UNCHANGED"
        /\ Matching(store, loc[t].filename) # {}
        /\ Get(args[t].metadata, "file_hash") = "stale"

----------------------------------------------------------------------------
(* C8 *)

\* C8: when the metadata get_file_info returned has no file_hash, the call
\* deletes the file's documents and ingests again, whatever the content and
\* the other metadata, and when it returns every document of the filename
\* carries file_hash equal to the current fingerprint.
C8_LegacyMigrates ==
    \A t \in Tasks :
        (/\ Completed(t)
         /\ loc[t].existing_info # EmptyDict
         /\ "file_hash" \notin DOMAIN loc[t].existing_info)
        => /\ calls[t] = <<"get_file_info", "delete_chunks", "ingest_chunks">>
           /\ Matching(store, loc[t].filename) = FullIngest(t)
           /\ \A d \in Matching(store, loc[t].filename) :
                 Get(d.metadata, "file_hash") = loc[t].current_hash

\* a legacy file reconciled with its content and metadata unchanged: the
\* documents before are those after, less the file_hash
C8_Witness ==
    \E t \in Tasks :
        /\ Completed(t)
        /\ loc[t].scenario = "LEGACY"
        /\ Matching(pre[t], loc[t].filename) =
              {[d EXCEPT !.metadata = args[t].metadata] : d \in FullIngest(t)}

----------------------------------------------------------------------------
(* C9 *)

\* C9: when a call that ingests returns, every document that another
\* filename had with the text of one of the ingested chunks is still stored
\* unchanged, and the filename of the call has its own document with that
\* text under another id: two records, not one overwritten.
C9_NoCrossFileCollision ==
    \A t \in Tasks :
        (Completed(t) /\ "ingest_chunks" \in Range(calls[t]))
        => \A d \in pre[t] :
              (/\ Get(d.metadata, "filename") # loc[t].filename
               /\ d.text \in {c.text : c \in Range(loc[t].chunks)})
              => /\ d \in store
                 /\ \E e \in Matching(store, loc[t].filename) :
                       e.text = d.text /\ e.id # d.id

\* two filenames that both hold the same chunk text
C9_Witness ==
    \E t \in Tasks :
        /\ Completed(t)
        /\ "ingest_chunks" \in Range(calls[t])
        /\ \E d \in pre[t], e \in store :
              /\ d.text = e.text
              /\ Get(d.metadata, "filename") # loc[t].filename
              /\ Get(e.metadata, "filename") = loc[t].filename

----------------------------------------------------------------------------
(* C10 *)

\* C10: a delete_file call that returns has invoked delete_chunks and nothing
\* else, and has removed every document of the filename, with or without a
\* file_hash, and no other document; a process_file call for that filename
\* that follows it and returns found nothing stored, took the NEW branch and
\* stored a full ingest.
C10_DeleteUnconditional ==
    \A t \in Tasks :
        /\ (op[t] = "delete_file" /\ pc[t] = "done")
           => /\ calls[t] = <<"delete_chunks">>
              /\ store = {d \in pre[t] : Get(d.metadata, "filename") # args[t].filename}
        /\ (Completed(t) /\ follows[t] = "after_delete")
           => /\ loc[t].existing_info = EmptyDict
              /\ loc[t].scenario = "NEW"
              /\ calls[t] = <<"get_file_info", "ingest_chunks">>
              /\ Matching(store, loc[t].filename) = FullIngest(t)

\* a delete_file that removed legacy documents and left another file's
C10_Witness ==
    \E t \in Tasks :
        /\ op[t] = "delete_file" /\ pc[t] = "done"
        /\ \E d \in pre[t] : Get(d.metadata, "filename") = args[t].filename
                             /\ "file_hash" \notin DOMAIN d.metadata
        /\ store # {}

----------------------------------------------------------------------------
(* C11 *)

\* C11: in every state, those left by a call that failed part-way included,
\* no two documents of the collection have the same id; and when a call that
\* ingested returns, each ingested chunk is the one document stored under its
\* id, with the text, embedding and metadata of the chunk, whatever document
\* had that id before.
C11_NoDuplicates ==
    /\ \A d1, d2 \in store : d1.id = d2.id => d1 = d2
    /\ \A t \in Tasks :
          (Completed(t) /\ "ingest_chunks" \in Range(calls[t]))
          => \A c \in Range(loc[t].chunks) : {d \in store : d.id = c.id} = {c}

\* an ingest onto ids that were stored with other metadata
C11_Witness ==
    \E t \in Tasks :
        /\ Completed(t)
        /\ "ingest_chunks" \in Range(calls[t])
        /\ \A c \in Range(loc[t].chunks) :
              \E d \in pre[t] : d.id = c.id /\ d.metadata # c.metadata
        /\ Cardinality(store) = Cardinality(pre[t])

----------------------------------------------------------------------------
(* C12 *)

\* C12: with include_metadata false, generate_id gives the same id for every
\* metadata value; so the id of every chunk a process_file call prepares is
\* the id of its text and the filename alone, whatever the other metadata and
\* the file_hash attached to it, and two stored documents of one filename
\* with the same text have the same id.
C12_IdIgnoresMetadata ==
    /\ \A t \in Tasks : \A c \in Range(loc[t].chunks) :
          op[t] = "process_file" =>
             /\ \A m \in Metadatas \cup {c.metadata, EmptyDict} :
                   generate_id(c.text, m, FALSE, loc[t].filename) = c.id
             /\ c.id = md5(c.text \o "|" \o loc[t].filename)
    /\ \A d1, d2 \in store :
          (/\ d1.text = d2.text
           /\ Get(d1.metadata, "filename") = Get(d2.metadata, "filename"))
          => d1.id = d2.id

\* a chunk stored again under the id it had, with another label and another
\* file_hash than before
C12_Witness ==
    \E t \in Tasks :
        /\ Completed(t)
        /\ \E d \in pre[t], c \in Range(loc[t].chunks) :
              /\ d.id = c.id
              /\ c \in store
              /\ Get(d.metadata, "label") # Get(c.metadata, "label")
              /\ Get(d.metadata, "file_hash") # Get(c.metadata, "file_hash")

----------------------------------------------------------------------------
(* C13 *)

\* C13: a process_file call whose metadata has no filename, missing or
\* empty, has failed with the validation error (ValueError), connected or
\* not, has invoked no sink method (no get_file_info, no delete_chunks, no
\* ingest_chunks), and the collection is as it was when the call started.
C13_ValidationNoEffect ==
    \A t \in Tasks :
        (/\ op[t] = "process_file"
         /\ ("filename" \notin DOMAIN args[t].metadata \/ args[t].metadata["filename"] = ""))
        => /\ pc[t] = "failed"
           /\ loc[t].error = "ValueError"
           /\ calls[t] = <<>>
           /\ store = pre[t]

\* a call with an empty filename made on a collection that holds documents
C13_Witness ==
    \E t \in Tasks :
        /\ op[t] = "process_file"
        /\ Get(args[t].metadata, "filename") = ""
        /\ pc[t] = "failed"
        /\ store # {}

----------------------------------------------------------------------------
(* C14 *)

\* task t takes a step
Stepped(t) == pc'[t] # pc[t] \/ loc'[t] # loc[t] \/ calls'[t] # calls[t]

\* C14: with one caller per filename and the callers' calls interleaved at
\* every await, (1) when a process_file call has returned, the documents
\* stored for its filename are those a call running alone would have left
\* from the collection it started from, and after a returned delete_file the
\* filename has none; (2) every document a step of a call adds, overwrites
\* or deletes has the filename of that call.
C14_DifferentFilenamesIndependent ==
    /\ [](\A t \in Tasks :
            /\ Completed(t) =>
                  Matching(store, Owner[t]) \in
                     {Matching(s, Owner[t]) :
                         s \in FailureFree(pre[t], args[t].file_path, args[t].content,
                                           args[t].metadata)}
            /\ (op[t] = "delete_file" /\ pc[t] = "done") => Matching(store, Owner[t]) = {})
    /\ [][\A t \in Tasks :
            Stepped(t) =>
               \A d \in (store \ store') \cup (store' \ store) :
                  Get(d.metadata, "filename") = loc[t].filename]_vars

\* two returned calls that overlapped: each filename's documents changed
\* after the other call had started, and one of the calls deleted
C14_Witness ==
    \E t, u \in Tasks :
        /\ t # u
        /\ Completed(t) /\ Completed(u)
        /\ "delete_chunks" \in Range(calls[t])
        /\ Matching(store, Owner[t]) # Matching(pre[u], Owner[t])
        /\ Matching(store, Owner[u]) # Matching(pre[t], Owner[u])

----------------------------------------------------------------------------
(* C15 *)

\* C15: a returned update_chunk_metadata(id, metadata) has, when a document
\* had that id, given that document the new metadata and left its text, its
\* embedding and every other document as they were; when no document had the
\* id it has left the collection as it was, created nothing and raised
\* nothing. A get_chunk(id) that follows it and returns gives the new
\* metadata with the text and embedding the document had, and None when no
\* document had the id.
C15_UpdateMetadataFrame ==
    /\ [](\A t \in Tasks :
            (op[t] = "update_chunk_metadata" /\ pc[t] = "done") =>
               /\ loc[t].error = None
               /\ store = {IF d.id = args[t].chunk_id
                           THEN [id |-> d.id, text |-> d.text, embedding |-> d.embedding,
                                 metadata |-> args[t].metadata]
                           ELSE d : d \in pre[t]})
    /\ [][\A t \in Tasks :
            (/\ op[t] = "update_chunk_metadata" /\ pc[t] = "done"
             /\ op'[t] = "get_chunk" /\ pc'[t] = "done"
             /\ args'[t].chunk_id = args[t].chunk_id)
            => IF \E d \in pre[t] : d.id = args[t].chunk_id
               THEN \E d \in pre[t] :
                       /\ d.id = args[t].chunk_id
                       /\ loc'[t].result =
                             [id |-> d.id, text |-> d.text, embedding |-> d.embedding,
                              metadata |-> args[t].metadata]
               ELSE loc'[t].result = EmptyDict]_vars

\* an update that changed the metadata of one of several documents
C15_Witness ==
    \E t \in Tasks :
        /\ op[t] = "update_chunk_metadata" /\ pc[t] = "done"
        /\ \E d \in pre[t] : d.id = args[t].chunk_id /\ d.metadata # args[t].metadata
        /\ \E d \in store : d.id # args[t].chunk_id /\ d.metadata # args[t].metadata

----------------------------------------------------------------------------
(* C16 *)

\* C16: while no connect() has returned, none called yet or the last one
\* failed, a call that reached a sink method has failed with ConnectionError
\* at the first one, and the collection is as it was when the call started.
C16_NotConnectedFatal ==
    \A t \in Tasks :
        (ping # "ok" /\ calls[t] # <<>>)
        => /\ pc[t] = "failed"
           /\ loc[t].error = "ConnectionError"
           /\ Len(calls[t]) = 1
           /\ store = pre[t]

----------------------------------------------------------------------------
(* C17 *)

\* C17: a process_file call that passed the filename check invokes, in this
\* order, get_file_info once, delete_chunks at most once, ingest_chunks at
\* most once, and once it has ended it has invoked get_file_info;
\* delete_chunks is invoked only when get_file_info returned metadata whose
\* file_hash is missing or differs from the current fingerprint (LEGACY,
\* CONTENT_CHANGED); and when ingest_chunks starts after a delete_chunks, the
\* delete has completed: the filename has no document left.
C17_CallOrdering ==
    \A t \in Tasks :
        (op[t] = "process_file" /\ loc[t].error # "ValueError")
        => LET info == loc[t].existing_info
               G == "get_file_info"
               D == "delete_chunks"
               I == "ingest_chunks"
           IN /\ calls[t] \in {<<>>, <<G>>, <<G, D>>, <<G, I>>, <<G, D, I>>}
              /\ calls[t] = <<>> <=> pc[t] = "get_file_info"
              /\ D \in Range(calls[t])
                    => /\ info # EmptyDict
                       /\ Get(info, "file_hash") # loc[t].current_hash
                       /\ loc[t].scenario \in {"LEGACY", "CONTENT_CHANGED"}
              /\ pc[t] = "delete_chunks" => calls[t] = <<G>>
              /\ (pc[t] = "ingest_chunks" /\ calls[t] = <<G, D>>)
                    => Matching(store, loc[t].filename) = {}

\* a call about to ingest after its delete removed the file's documents
C17_Witness ==
    \E t \in Tasks :
        /\ op[t] = "process_file"
        /\ pc[t] = "ingest_chunks"
        /\ calls[t] = <<"get_file_info", "delete_chunks">>
        /\ Matching(pre[t], loc[t].filename) # {}

----------------------------------------------------------------------------
(* C18 *)

\* C18: (1) when a process_file call failed in ingest_chunks after its
\* delete_chunks succeeded, and none of its chunks was committed, the
\* collection holds no document of the filename; (2) when the next
\* process_file call for that filename, with the same or other arguments,
\* returns, get_file_info returned nothing, the call took the NEW branch, and
\* the documents of the filename are the full ingest of the call.
C18_FailedReingestRecovers ==
    \A t \in Tasks :
        /\ (/\ op[t] = "process_file" /\ pc[t] = "failed"
            /\ calls[t] = <<"get_file_info", "delete_chunks", "ingest_chunks">>
            /\ Range(loc[t].chunks) \cap store = {})
           => Matching(store, loc[t].filename) = {}
        /\ (/\ Completed(t)
            /\ \/ follows[t] = "after_failed_reingest"
               \/ /\ follows[t] = "retry"
                  /\ Matching(origin[t], loc[t].filename) # {}
                  /\ Matching(pre[t], loc[t].filename) = {})
           => /\ loc[t].existing_info = EmptyDict
              /\ loc[t].scenario = "NEW"
              /\ Matching(store, loc[t].filename) = FullIngest(t)

\* the call after a re-ingest that deleted the file's documents and failed
\* before it stored one: it returned, with another label than the failed call
C18_Witness ==
    \E t \in Tasks :
        /\ Completed(t)
        /\ follows[t] = "after_failed_reingest"
        /\ Matching(pre[t], loc[t].filename) = {}
        /\ Cardinality(Matching(store, loc[t].filename)) = 2

----------------------------------------------------------------------------
(* C19 *)

\* C19: an ingest_chunks(chunks, batch_size) call writes the list in
\* consecutive batches, in input order: its offset is a multiple of
\* batch_size, every chunk before the offset is stored, no chunk is stored
\* ahead of an earlier one, and one step stores at most batch_size documents;
\* while it waits to write the batch at its offset, no chunk from the offset
\* on has been written; when a batch failed, the call has failed with the
\* error of the backend, the chunks of the later batches have not been
\* written and the chunks of the earlier batches are still stored; when it
\* returned, every chunk is stored.
C19_BatchedIngest ==
    /\ [](\A t \in Tasks :
            "ingest_chunks" \in Range(calls[t]) \/ pc[t] = "ingest_chunks" =>
               LET chunks == loc[t].chunks
                   n == Len(chunks)
                   size == loc[t].batch_size
                   i == loc[t].i
                   written(j) == chunks[j] \in store /\ chunks[j] \notin pre[t]
               IN /\ i % size = 0
                  /\ \A j \in 1..n : j <= i => chunks[j] \in store
                  /\ \A j, k \in 1..n : (j < k /\ written(k)) => chunks[j] \in store
                  /\ pc[t] = "ingest_chunks" => \A j \in 1..n : j > i => ~written(j)
                  /\ pc[t] = "failed"
                        => /\ loc[t].error \in {"PyMongoError", "ConnectionError"}
                           /\ \A j \in 1..n : j > i + size => ~written(j)
                           /\ loc[t].error = "PyMongoError"
                                 => \E j \in 1..n : j > i /\ j <= i + size /\ ~written(j)
                  /\ pc[t] = "done" => \A j \in 1..n : chunks[j] \in store)
    /\ [][\A t \in Tasks :
            pc[t] = "ingest_chunks" => Cardinality(store' \ store) <= loc[t].batch_size]_vars

\* a call of three chunks in batches of one that failed at its second batch:
\* the first chunk is stored, the third was never written
C19_Witness ==
    \E t \in Tasks :
        /\ op[t] = "ingest_chunks" /\ pc[t] = "failed"
        /\ loc[t].error = "PyMongoError"
        /\ loc[t].i > 0
        /\ loc[t].i + loc[t].batch_size < Len(loc[t].chunks)
        /\ loc[t].chunks[1] \in store
        /\ loc[t].chunks[Len(loc[t].chunks)] \notin store

----------------------------------------------------------------------------
(* C20 *)

\* C20: for process_file and delete_file, (1) the step in which a backend
\* call fails ends the call, failed with the error of the backend (or with
\* ConnectionError when the sink has no db), the failing method being the
\* last one the call invoked; (2) a failed call
\* invokes nothing more and writes nothing more; (3) no call invokes a sink
\* method twice, and a call that failed in delete_chunks has not invoked
\* ingest_chunks.
C20_FailuresPropagate ==
    /\ [][\A t \in Tasks :
            (Stepped(t) /\ (failures' # failures \/ (pc[t] \notin Finished /\ db = None))) =>
               /\ pc[t] \notin Finished
               /\ pc'[t] = "failed"
               /\ loc'[t].error = IF db = None THEN "ConnectionError" ELSE "PyMongoError"
               /\ calls'[t] # <<>>
               /\ calls'[t][Len(calls'[t])] = pc[t]]_vars
    /\ [][\A t \in Tasks :
            (pc[t] = "failed" /\ op'[t] = op[t] /\ args'[t] = args[t] /\ pc'[t] = "failed")
            => (calls'[t] = calls[t] \/ calls'[t] = <<>>) /\ store' = store]_vars
    /\ [](\A t \in Tasks :
            /\ Cardinality(Range(calls[t])) = Len(calls[t])
            /\ (/\ pc[t] = "failed" /\ calls[t] # <<>>
                /\ calls[t][Len(calls[t])] = "delete_chunks")
               => /\ loc[t].error \in {"PyMongoError", "ConnectionError"}
                  /\ Matching(store, loc[t].filename) = Matching(pre[t], loc[t].filename))

\* a re-ingest whose delete_chunks failed: the call ended there, the file's
\* documents are still stored and ingest_chunks was not invoked
C20_Witness ==
    \E t \in Tasks :
        /\ op[t] = "process_file" /\ pc[t] = "failed"
        /\ loc[t].error = "PyMongoError"
        /\ calls[t] = <<"get_file_info", "delete_chunks">>
        /\ Matching(store, loc[t].filename) # {}

----------------------------------------------------------------------------
(* C21 *)

\* the file_hash values the documents of a filename carry
FileHashes(s, filename) == {Get(d.metadata, "file_hash") : d \in Matching(s, filename)}

\* C21: two process_file calls for one filename that run at the same time
\* with different fingerprints can leave, both returned, documents of the
\* filename with two different file_hash values; and it takes the two calls
\* running at the same time: a step that brings a second file_hash value to
\* the documents of the filename is the bulk write of a call that ran while
\* the other caller's call for the filename was running.
C21_MixedOnlyWhenInterleaved ==
    [][(Cardinality(FileHashes(store, SameFilename)) <= 1
          /\ Cardinality(FileHashes(store', SameFilename)) > 1)
       => \E t \in Tasks :
             /\ pc[t] = "ingest_chunks" /\ Stepped(t)
             /\ op[t] = "process_file" /\ overlap[t]
             /\ \E u \in Tasks \ {t} :
                   /\ op[u] = "process_file"
                   /\ Get(args[u].metadata, "filename") = Get(args[t].metadata, "filename")]_vars

\* both calls have returned, they ran at the same time with different
\* fingerprints, and the documents of the filename carry both fingerprints
C21_Witness ==
    /\ \A t \in Tasks : Completed(t) /\ overlap[t]
    /\ loc["t1"].current_hash # loc["t2"].current_hash
    /\ FileHashes(store, SameFilename) = {loc["t1"].current_hash, loc["t2"].current_hash}

----------------------------------------------------------------------------
(* C22 *)

\* the fingerprint of a file that is not there: the digest of its path
FallbackHash(t) == md5(PathString(args[t].file_path))

\* task t returned from a process_file made with no file at file_path
CompletedUnreadable(t) == Completed(t) /\ args[t].content = None

----------------------------------------------------------------------------
(* C23 *)

\* the records a process_file that hashed the bytes of its file can log
BytesRecords ==
    UNION {Range(ScenarioLog(scenario, filename)) :
             scenario \in {"NEW", "LEGACY", "CONTENT_CHANGED", "METADATA_CHANGED", "UNCHANGED"},
             filename \in Filenames}

\* C23: a returned process_file whose fingerprint is the digest of the path,
\* no file being at file_path, has logged a warning-level record that no call
\* hashing the bytes of its file logs.
C23_DegradedHashObservable ==
    \A t \in Tasks :
        CompletedUnreadable(t) =>
            \E r \in Range(loc[t].log) : r.level = "warning" /\ r \notin BytesRecords

----------------------------------------------------------------------------
(* C24 *)

\* C24: two different (text, salt) pairs never get the same id: when an
\* ingest of a chunk has returned, no document the collection held before
\* with another text or another filename has the id of that chunk, so the
\* ingest overwrote no chunk of another text or file.
C24_IdInjective ==
    \A t \in Tasks :
        (op[t] = "ingest_chunks" /\ pc[t] = "done") =>
            \A i \in DOMAIN args[t].chunks : \A d \in pre[t] :
                LET c == args[t].chunks[i]
                IN (d.text # c.text
                      \/ Get(d.metadata, "filename") # Get(c.metadata, "filename"))
                   => d.id # c.id

----------------------------------------------------------------------------
(* C25 *)

\* C25: when process_file(file_path, metadata) has returned, every document
\* of the filename carries exactly the metadata of the call with file_hash
\* set to the fingerprint the call computed: no key the metadata lacks, no
\* file_hash of the caller's.
C25_StoredMetadataMatches ==
    \A t \in Tasks :
        Completed(t) =>
            \A d \in Matching(store, loc[t].filename) :
                d.metadata = updated_metadata(args[t].metadata, loc[t].current_hash)

----------------------------------------------------------------------------
(* C26 *)

\* C26: a returned process_file that repeats the caller's previous call, that
\* call having returned too (same file_path, same content, same metadata),
\* took the UNCHANGED branch whatever document get_file_info returned: it
\* called get_file_info and nothing else and left the collection as it was.
C26_RepeatIsUnchanged ==
    \A t \in Tasks :
        (Completed(t) /\ follows[t] = "repeat")
        => /\ loc[t].scenario = "UNCHANGED"
           /\ calls[t] = <<"get_file_info">>
           /\ store = pre[t]

----------------------------------------------------------------------------
(* C27 *)

\* C27: when an ingest_chunks(chunks, batch_size) call has returned, for any
\* integer batch_size, every chunk of the list is stored.
C27_CompleteOnReturn ==
    \A t \in Tasks :
        (op[t] = "ingest_chunks" /\ pc[t] = "done") =>
            \A j \in DOMAIN args[t].chunks : args[t].chunks[j] \in store

====
